---- MODULE Spec2Model ----
(***************************************************************************)
(* proxify (src/index.js): a reverse proxy that routes <name>.localhost to *)
(* the address of the running Docker container <name>.  The model covers   *)
(* the routing table (containerMap), the reconciliation pass              *)
(* (updateRoutes), the Docker event listener with its reconnect timers,    *)
(* process start-up and shutdown, and the proxy's dispatch lookup.         *)
(*                                                                         *)
(* Node.js runs one callback at a time: every action below is one run of   *)
(* the event loop, from the resumption of an await (or the delivery of an  *)
(* event) to the next await or return.                                     *)
(***************************************************************************)
EXTENDS Naturals, Sequences, FiniteSets, TLC

VARIABLES
    proc,          \* position of init(): "ping", "init", "running", "exit0", "exit1"
    containerMap,  \* index.js:12, the routing table: name -> {name, ip, port}
    passes,        \* the updateRoutes() invocations in flight, in start order
    connecting,    \* docker.getEvents calls whose callback has not run yet
    streams,       \* live event streams with the handlers of lines 146-167
    timers,        \* pending setTimeout(setupDockerEventListener, ...)
    pending,       \* lifecycle events emitted by Docker, not yet delivered
    workload,      \* the runtime: for each name "stopped" or its metadata profile
    changes,       \* number of changes of the runtime so far (starts, stops,
                   \* failed calls)
    callFailed,    \* history: a list or inspect call has failed
    report,        \* what the last finished pass logged (lines 42, 52, 57, 59),
                   \* and history of the data handler: skipped, whether a
                   \* chunk has failed to parse (155) and an event has been
                   \* handled since; discarded, whether an event has failed
                   \* the test of 149-150
    resp,          \* the response to the last proxy or management request
    settled,       \* history: names whose start-triggered pass has completed
    cleanRuns      \* history: consecutive installs by passes that ran while the
                   \* runtime stayed as it is now (counted up to 2)

vars == <<proc, containerMap, passes, connecting, streams, timers, pending,
          workload, changes, callFailed, report, resp, settled, cleanRuns>>

-----------------------------------------------------------------------------
(* Bounds of the model *)

\* changes of the runtime (starts, stops, failed calls) in one behaviour;
\* it also bounds the events emitted and the passes they trigger
MaxChanges == 3

\* subscriptions, subscription requests and reconnect timers at a time, where
\* a stream may report an error and stay open
MaxFeeds == 2

\* networks attached to, and ports exposed by, a workload whose metadata is
\* resolved on its own
MaxEntries == 2

\* The workloads the runtime may run.
Names == {"a", "b"}

-----------------------------------------------------------------------------
(* Runtime metadata and endpoint resolution, index.js:26-49 *)

\* What inspect() reports for a workload: NetworkSettings.IPAddress,
\* the IPAddress of each of NetworkSettings.Networks in key order, and the
\* keys of Config.ExposedPorts as <<number, protocol>>.
Profile(id) ==
    CASE id = "primary" ->
           [IPAddress |-> "172.17.0.2", Networks |-> <<"172.17.0.2">>,
            ExposedPorts |-> <<<<"8080", "tcp">>>>]
      [] id = "netonly" ->
           [IPAddress |-> "", Networks |-> <<"", "10.0.0.5">>,
            ExposedPorts |-> <<>>]
      [] id = "noip" ->
           [IPAddress |-> "", Networks |-> <<"">>,
            ExposedPorts |-> <<<<"3000", "tcp">>>>]
      [] OTHER ->   \* a stopped container: inspect() reports no address
           [IPAddress |-> "", Networks |-> <<>>, ExposedPorts |-> <<>>]

\* The profiles a workload may start with.
ProfilesOf(n) == IF n = "a" THEN {"primary", "noip"} ELSE {"netonly"}

\* index.js:32-38: the first network, in key order, with a non-empty address
RECURSIVE FirstAddress(_)
FirstAddress(networks) ==
    IF networks = <<>> THEN ""
    ELSE IF Head(networks) # "" THEN Head(networks)
    ELSE FirstAddress(Tail(networks))

\* The sequences over S of at most n entries.
SeqUpTo(S, n) == UNION {[1..k -> S] : k \in 0..n}

\* The addresses a network may report, and the keys of Config.ExposedPorts.
NetworkAddresses == {"", "172.17.0.2", "10.0.0.5"}
PortKeys == {<<"8080", "tcp">>, <<"53", "udp">>}

\* What inspect() may report for a listed workload (index.js:26-28, 46).
Metadata ==
    [IPAddress : {"", "172.17.0.2"},
     Networks : SeqUpTo(NetworkAddresses, MaxEntries),
     ExposedPorts : SeqUpTo(PortKeys, MaxEntries)]

\* A selection that scans the networks before it looks at the primary address.
SelectIp_NetworksFirst(m) ==
    IF FirstAddress(m.Networks) # "" THEN FirstAddress(m.Networks)
    ELSE m.IPAddress

\* index.js:30-39
SelectIp(m) ==
    IF m.IPAddress # "" THEN m.IPAddress ELSE FirstAddress(m.Networks)

\* index.js:46-47: Object.keys(exposedPorts)[0]?.split("/")[0] || "80"
SelectPort(m) ==
    IF m.ExposedPorts = <<>> THEN "80"
    ELSE IF Head(m.ExposedPorts)[1] = "" THEN "80"
    ELSE Head(m.ExposedPorts)[1]

\* index.js:49: the value stored for a resolved workload
Endpoint(name, m) == [name |-> name, ip |-> SelectIp(m), port |-> SelectPort(m)]

EmptyMap == [n \in {} |-> Endpoint(n, Profile("stopped"))]

\* index.js:49: newContainerMap.set(name, {name, ip, port})
MapSet(map, name, ep) == (name :> ep) @@ map

\* index.js:88: containerMap.get(name)
Has(map, name) == name \in DOMAIN map

\* The workloads docker.listContainers({all: false}) returns, index.js:19
Running == {n \in Names : workload[n] # "stopped"}

-----------------------------------------------------------------------------
(* The state after construction, index.js:12, 134, 215 *)

\* kind: "installed" (index.js:57) or "aborted" (index.js:59); table: the
\* map the last installing pass built; listed: what its listing returned;
\* failed: the workloads it skipped (index.js:42, 52).
NoReport ==
    [kind |-> "none", table |-> EmptyMap, listed |-> {}, failed |-> {},
     skipped |-> "no", discarded |-> FALSE]

\* host and table: the Host header of the request and the table it was
\* looked up in.  phase: where a forwarded request is ("proxying": handed to
\* the upstream, "streaming": the upstream's response has begun, "ended",
\* "failed").  sent: the responses written to the caller, in order.
NoResponse ==
    [req |-> "none", host |-> [present |-> FALSE, value |-> <<>>],
     table |-> EmptyMap, status |-> "", routes |-> {}, target |-> <<>>,
     phase |-> "none", sent |-> <<>>]

InitWith(c) ==
    /\ proc = "ping"
    /\ containerMap = EmptyMap
    /\ passes = <<>>
    /\ connecting = 0
    /\ streams = 0
    /\ timers = 0
    /\ pending = <<>>
    /\ workload \in {w \in [Names -> {"stopped", "primary", "netonly"}] :
                       \A n \in Names : w[n] \in ProfilesOf(n) \cup {"stopped"}}
    /\ changes = c
    /\ callFailed = FALSE
    /\ report = NoReport
    /\ resp = NoResponse
    /\ settled = {}
    /\ cleanRuns = 0

Init == InitWith(0)

Alive == proc \in {"ping", "init", "running"}

-----------------------------------------------------------------------------
(* The runtime (Docker), the environment of the program *)

Remove(seq, i) == [j \in 1..(Len(seq) - 1) |-> IF j < i THEN seq[j] ELSE seq[j + 1]]

\* Every pass in flight has now seen the runtime change under it.
Dirtied == [i \in DOMAIN passes |-> [passes[i] EXCEPT !.dirty = TRUE]]

\* The same when workload n stops: a pass triggered by its start event no
\* longer answers for a running workload.
DirtiedStop(n) ==
    [i \in DOMAIN passes |->
        [passes[i] EXCEPT !.dirty = TRUE,
                          !.startOf = IF @ = n THEN "" ELSE @]]

\* Docker emits a lifecycle event.  A subscription that is live, or being
\* opened (index.js:136 passes since: now), receives it; an event emitted
\* with no subscription precedes the next one's since and is lost.
Emit(e) ==
    IF streams > 0 \/ connecting > 0
    THEN pending' = Append(pending, e)
    ELSE pending' = pending

StartWorkload(n, p) ==
    /\ Alive
    /\ changes < MaxChanges
    /\ workload[n] = "stopped"
    /\ workload' = [workload EXCEPT ![n] = p]
    /\ changes' = changes + 1
    /\ passes' = Dirtied
    /\ cleanRuns' = 0
    /\ Emit([type |-> "container", kind |-> "start", name |-> n])
    /\ UNCHANGED callFailed
    /\ UNCHANGED <<proc, containerMap, connecting, streams, timers, report,
                   resp, settled>>

\* Events of the runtime that the proxy has no use for.
OtherEvents ==
    {[type |-> "container", kind |-> "kill", name |-> "a"],
     [type |-> "network", kind |-> "connect", name |-> "bridge"]}

\* Docker emits an event of another kind.  The running workloads stay as
\* they are; the event counts as a change for the bound.
EmitOther(e) ==
    /\ Alive
    /\ changes < MaxChanges
    /\ changes' = changes + 1
    /\ Emit(e)
    /\ UNCHANGED <<proc, containerMap, passes, connecting, streams, timers,
                   workload, callFailed, report, resp, settled, cleanRuns>>

\* A workload exits (k = "die") or is stopped (k = "stop").
StopWorkload(n, k) ==
    /\ Alive
    /\ changes < MaxChanges
    /\ workload[n] # "stopped"
    /\ workload' = [workload EXCEPT ![n] = "stopped"]
    /\ changes' = changes + 1
    /\ passes' = DirtiedStop(n)
    /\ cleanRuns' = 0
    /\ Emit([type |-> "container", kind |-> k, name |-> n])
    /\ UNCHANGED callFailed
    /\ settled' = settled \ {n}
    /\ UNCHANGED <<proc, containerMap, connecting, streams, timers, report,
                   resp>>

-----------------------------------------------------------------------------
(* updateRoutes, index.js:15-61 *)

\* A pass as it is called (index.js:16-19): the list request is in flight.
\* from: "init" (index.js:192) or "event" (index.js:152).  startOf: the name
\* of the start event that triggered the pass when that name had no route.
\* dirty: the runtime has changed, or a call has failed, since the call.
\* stale: history, a pass that obtained its listing later has installed.
NewPass(from, startOf) ==
    [pc |-> "list", listed |-> {}, todo |-> {}, new |-> EmptyMap, failed |-> {},
     from |-> from, startOf |-> startOf, dirty |-> FALSE, stale |-> FALSE]

\* Pass i installs its table.  When it does so in the step that obtains its
\* listing (an empty one), every pass in its loop holds an older listing and
\* is now stale; the order of two listings held in flight is not recorded.
Superseded(ps, i) ==
    [j \in DOMAIN ps |->
       IF passes[i].pc = "list" /\ ps[j].pc = "loop"
       THEN [ps[j] EXCEPT !.stale = TRUE]
       ELSE ps[j]]

\* A table that keeps the routes the new map does not name.
Replace_Merge(old, new) == new @@ old

\* A table of the routes that were not there before.
Replace_OnlyNew(old, new) == [n \in DOMAIN new \ DOMAIN old |-> new[n]]

\* index.js:56: containerMap = newContainerMap
Replace(old, new) == new

\* A catch that installs the map built so far, which is empty.
TableOnListFailure_Clear(old) == EmptyMap

\* index.js:58-60: the outer catch only logs
TableOnListFailure(old) == old

\* A failure that leaves the loop.
RestAfterFailure_Break(todo, c) == {}

\* index.js:41-44 and 51-53: continue with the workloads still to inspect
RestAfterFailure(todo, c) == todo \ {c}

\* The pass returns: its caller resumes.  init() (index.js:192-207) goes on
\* to setupDockerEventListener() and the two listen() calls; the data
\* handler (index.js:152) has nothing left to do.
Finish(i, others, kind, table, built, listed, failed, dirty) ==
    /\ passes' = Remove(IF kind = "installed" THEN Superseded(others, i)
                         ELSE others, i)
    /\ containerMap' = table
    /\ report' = [kind |-> kind, table |-> built, listed |-> listed,
                  failed |-> failed, skipped |-> report.skipped,
                  discarded |-> report.discarded]
    /\ IF passes[i].from = "init"
       THEN proc' = "running" /\ connecting' = connecting + 1
       ELSE UNCHANGED <<proc, connecting>>
    /\ settled' = IF kind = "installed" /\ passes[i].startOf \in DOMAIN table
                  THEN settled \cup {passes[i].startOf}
                  ELSE settled
    /\ cleanRuns' = IF dirty THEN 0
                    ELSE IF kind # "installed" THEN cleanRuns
                    ELSE IF cleanRuns = 0 THEN 1 ELSE 2
    /\ UNCHANGED <<streams, timers, pending, workload, resp>>

\* index.js:19-22 and, for an empty listing, 56-57
ListOk(i) ==
    /\ Alive
    /\ passes[i].pc = "list"
    /\ UNCHANGED <<changes, callFailed>>
    /\ IF Running = {}
       THEN Finish(i, passes, "installed", Replace(containerMap, EmptyMap),
                   EmptyMap, {}, {}, passes[i].dirty)
       ELSE /\ passes' = [passes EXCEPT ![i] =
                  [@ EXCEPT !.pc = "loop", !.listed = Running, !.todo = Running]]
            /\ UNCHANGED <<proc, containerMap, connecting, streams, timers,
                           pending, workload, report, resp, settled, cleanRuns>>

\* An updateRoutes() without the outer catch: the rejection of the list call
\* reaches the catch of init(), or nobody, and the process exits.
ListFail_Rethrow(i) ==
    /\ Alive
    /\ passes[i].pc = "list"
    /\ changes < MaxChanges
    /\ changes' = changes + 1
    /\ callFailed' = TRUE
    /\ proc' = "exit1"
    /\ passes' = <<>>
    /\ UNCHANGED <<containerMap, connecting, streams, timers, pending, workload,
                   report, resp, settled, cleanRuns>>

\* index.js:19 rejects: 58-60.  A failing call is a change of the runtime.
ListFail(i) ==
    /\ Alive
    /\ passes[i].pc = "list"
    /\ changes < MaxChanges
    /\ changes' = changes + 1
    /\ callFailed' = TRUE
    /\ Finish(i, Dirtied, "aborted", TableOnListFailure(containerMap),
              report.table, {}, {}, TRUE)

\* A loop that installs the map built so far after every workload.
Inspect_Eager(i, c, throws) ==
    /\ Alive
    /\ passes[i].pc = "loop"
    /\ c \in passes[i].todo
    /\ ~throws
    /\ LET p == passes[i]
           m == Profile(workload[c])
           new2 == IF SelectIp(m) # "" THEN MapSet(p.new, c, Endpoint(c, m))
                   ELSE p.new
       IN /\ passes' = IF p.todo = {c} THEN Remove(passes, i)
                       ELSE [passes EXCEPT ![i] =
                               [@ EXCEPT !.todo = @ \ {c}, !.new = new2]]
          /\ containerMap' = new2
    /\ UNCHANGED <<proc, connecting, streams, timers, pending, workload, changes,
                   callFailed, report, resp, settled, cleanRuns>>

\* index.js:23-54 for one listed workload c, and 56-57 after the last one.
\* throws: inspect() rejects (a change of the runtime).  inspect() of a
\* workload that has stopped since the listing reports no address.
Inspect(i, c, throws) ==
    /\ Alive
    /\ passes[i].pc = "loop"
    /\ c \in passes[i].todo
    /\ throws => changes < MaxChanges
    /\ changes' = IF throws THEN changes + 1 ELSE changes
    /\ callFailed' = (callFailed \/ throws)
    /\ LET p == passes[i]
           m == Profile(workload[c])
           ok == ~throws /\ SelectIp(m) # ""
           new2 == IF ok THEN MapSet(p.new, c, Endpoint(c, m)) ELSE p.new
           failed2 == IF ok THEN p.failed ELSE p.failed \cup {c}
           todo2 == IF ok THEN p.todo \ {c} ELSE RestAfterFailure(p.todo, c)
           others == IF throws THEN Dirtied ELSE passes
       IN IF todo2 = {}
          THEN Finish(i, others, "installed", Replace(containerMap, new2),
                      new2, p.listed, failed2, others[i].dirty)
          ELSE /\ passes' = [others EXCEPT ![i] =
                     [@ EXCEPT !.todo = todo2, !.new = new2, !.failed = failed2]]
               /\ cleanRuns' = IF throws THEN 0 ELSE cleanRuns
               /\ UNCHANGED <<proc, containerMap, connecting, streams, timers,
                              pending, workload, report, resp, settled>>

\* A pass that listed workload c alone and holds containerInfo = m, the
\* result of index.js:26.
Inspected(c, m) ==
    [info |-> m] @@
    [NewPass("event", "") EXCEPT !.pc = "loop", !.listed = {c}, !.todo = {c}]

\* index.js:28-49 on the metadata the pass holds, and 56-57: the workload
\* was the only one listed.
Resolve(i) ==
    /\ Alive
    /\ passes[i].pc = "loop"
    /\ "info" \in DOMAIN passes[i]
    /\ LET p == passes[i]
           c == CHOOSE n \in p.todo : TRUE
           m == p.info
           ok == SelectIp(m) # ""
           new2 == IF ok THEN MapSet(p.new, c, Endpoint(c, m)) ELSE p.new
           failed2 == IF ok THEN p.failed ELSE p.failed \cup {c}
       IN Finish(i, passes, "installed", Replace(containerMap, new2),
                 new2, p.listed, failed2, p.dirty)
    /\ UNCHANGED <<changes, callFailed>>

-----------------------------------------------------------------------------
(* init, index.js:183-213, and gracefulShutdown, index.js:171-180 *)

\* An init() that does not await the first pass: the subscription is
\* requested as soon as updateRoutes() has been called.
PingOk_NoAwait ==
    /\ proc = "ping"
    /\ proc' = "init"
    /\ passes' = <<NewPass("init", "")>>
    /\ connecting' = connecting + 1
    /\ UNCHANGED <<containerMap, streams, timers, pending, workload,
                   changes, callFailed, report, resp, settled, cleanRuns>>

\* index.js:188-192: the ping resolves and the first pass is called
PingOk ==
    /\ proc = "ping"
    /\ proc' = "init"
    /\ passes' = <<NewPass("init", "")>>
    /\ UNCHANGED <<containerMap, connecting, streams, timers, pending, workload,
                   changes, callFailed, report, resp, settled, cleanRuns>>

\* The process is gone: its memory, timers and sockets with it.
Exit(code) ==
    /\ proc' = code
    /\ containerMap' = EmptyMap
    /\ passes' = <<>>
    /\ connecting' = 0
    /\ streams' = 0
    /\ timers' = 0
    /\ pending' = <<>>
    /\ report' = NoReport
    /\ resp' = NoResponse
    /\ settled' = {}
    /\ cleanRuns' = 0
    /\ UNCHANGED <<workload, changes, callFailed>>

\* index.js:188 rejects: 209-212
PingFail ==
    /\ proc = "ping"
    /\ Exit("exit1")

\* index.js:171-180: SIGTERM or SIGINT
Shutdown ==
    /\ Alive
    /\ Exit("exit0")

-----------------------------------------------------------------------------
(* setupDockerEventListener, index.js:135-169 *)

\* index.js:139: setTimeout(setupDockerEventListener, 5000)
AfterGetEventsError(t) == t + 1

\* index.js:137-141: the getEvents callback runs with an error
GetEventsError ==
    /\ Alive
    /\ connecting > 0
    /\ connecting' = connecting - 1
    /\ timers' = AfterGetEventsError(timers)
    /\ pending' = IF streams + connecting > 1 THEN pending ELSE <<>>
    /\ UNCHANGED <<proc, containerMap, passes, streams, workload, changes, callFailed,
                   report, resp, settled, cleanRuns>>

\* index.js:143-167: the getEvents callback runs with a stream
GetEventsOk ==
    /\ Alive
    /\ connecting > 0
    /\ connecting' = connecting - 1
    /\ streams' = streams + 1
    /\ UNCHANGED <<proc, containerMap, passes, timers, pending, workload,
                   changes, callFailed, report, resp, settled, cleanRuns>>

\* index.js:161: setTimeout(setupDockerEventListener, 5000)
AfterStreamError(t) == t + 1

\* An end handler that only logs.
AfterStreamEnd_NoRetry(t) == t

\* index.js:166: setTimeout(setupDockerEventListener, 1000)
AfterStreamEnd(t) == t + 1

\* index.js:159-162: the stream emits "error" and is closed
StreamError ==
    /\ Alive
    /\ streams > 0
    /\ streams' = streams - 1
    /\ timers' = AfterStreamError(timers)
    /\ pending' = IF streams + connecting > 1 THEN pending ELSE <<>>
    /\ UNCHANGED <<proc, containerMap, passes, connecting, workload, changes, callFailed,
                   report, resp, settled, cleanRuns>>

\* index.js:164-167: the stream emits "end"
StreamEnd ==
    /\ Alive
    /\ streams > 0
    /\ streams' = streams - 1
    /\ timers' = AfterStreamEnd(timers)
    /\ pending' = IF streams + connecting > 1 THEN pending ELSE <<>>
    /\ UNCHANGED <<proc, containerMap, passes, connecting, workload, changes, callFailed,
                   report, resp, settled, cleanRuns>>

\* index.js:159-162: the stream emits "error" and stays open.  The handler
\* sets the timer; it does not destroy the stream or remove its listeners,
\* and the stream goes on to deliver events, to end, or to fail again.
StreamErrorOpen ==
    /\ Alive
    /\ streams > 0
    /\ connecting + streams + timers < MaxFeeds
    /\ timers' = AfterStreamError(timers)
    /\ UNCHANGED <<proc, containerMap, passes, connecting, streams, pending,
                   workload, changes, callFailed, report, resp, settled,
                   cleanRuns>>

\* A reconnect timer fires: index.js:135-136 issues getEvents again
TimerFire ==
    /\ Alive
    /\ timers > 0
    /\ timers' = timers - 1
    /\ connecting' = connecting + 1
    /\ UNCHANGED <<proc, containerMap, passes, streams, pending, workload,
                   changes, callFailed, report, resp, settled, cleanRuns>>

\* A test of the type alone.
Relevant_AnyAction(e) == e.type = "container"

\* index.js:149-150
Relevant(e) == e.type = "container" /\ e.kind \in {"start", "stop", "die"}

\* index.js:146-153: a chunk with a container start, stop or die event is
\* delivered: updateRoutes() is called and runs up to its first await.  Every
\* live stream has its own data handler and delivers the event: the handlers
\* run one after the other, each calling updateRoutes().
OnData ==
    /\ Alive
    /\ streams > 0
    /\ pending # <<>>
    /\ LET e == Head(pending)
       IN /\ Relevant(e)
          /\ passes' = passes \o [j \in 1..streams |->
                 NewPass("event",
                         IF e.kind = "start" /\ ~Has(containerMap, e.name)
                         THEN e.name ELSE "")]
    /\ pending' = Tail(pending)
    /\ report' = [report EXCEPT !.skipped = IF @ = "no" THEN "no" ELSE "resumed"]
    /\ UNCHANGED <<proc, containerMap, connecting, streams, timers, workload,
                   changes, callFailed, resp, settled, cleanRuns>>

\* index.js:148-150: a chunk with an event of another type or action passes
\* the parse and fails the test; nothing is done.
OnDataOther ==
    /\ Alive
    /\ streams > 0
    /\ pending # <<>>
    /\ ~Relevant(Head(pending))
    /\ pending' = Tail(pending)
    /\ report' = [report EXCEPT !.discarded = TRUE]
    /\ UNCHANGED <<proc, containerMap, passes, connecting, streams, timers,
                   workload, changes, callFailed, resp, settled, cleanRuns>>

\* A catch that gives the subscription up and schedules a new one.
OnDataMalformed_Reconnect(k) ==
    /\ Alive
    /\ streams > 0
    /\ k \in 1..Len(pending)
    /\ pending' = <<>>
    /\ streams' = streams - 1
    /\ timers' = timers + 1
    /\ report' = [report EXCEPT !.skipped = "yes"]
    /\ UNCHANGED <<proc, containerMap, passes, connecting, workload, changes,
                   callFailed, resp, settled, cleanRuns>>

\* index.js:148, 154-156: JSON.parse throws and the error is logged.  The
\* stream is a byte stream and a chunk is what one read returned: the next k
\* events do not parse when they arrive in one chunk (k > 1), or when the
\* event is split over two chunks (k = 1).
OnDataMalformed(k) ==
    /\ Alive
    /\ streams > 0
    /\ k \in 1..Len(pending)
    /\ pending' = SubSeq(pending, k + 1, Len(pending))
    /\ report' = [report EXCEPT !.skipped = "yes"]
    /\ UNCHANGED <<proc, containerMap, passes, connecting, streams, timers,
                   workload, changes, callFailed, resp, settled, cleanRuns>>

-----------------------------------------------------------------------------
(* The proxy's dispatch, index.js:81-123, and the management endpoints,   *)
(* index.js:64-79                                                          *)

\* A Host header is a sequence of tokens: a letter, ":" , a port digit, or
\* the suffix ".localhost" as one token.  An absent header has present FALSE.
Suffix == ".localhost"

\* The names requests ask for: the workloads' names and one that is never a
\* workload's.
HostNames == Names \cup {"c"}

\* The port digits of a Host header.
HostPorts == {"8", "9"}

Hosts ==
    {[present |-> FALSE, value |-> <<>>],
     [present |-> TRUE, value |-> <<>>]}
    \cup {[present |-> TRUE, value |-> <<n, Suffix>>] : n \in HostNames}
    \cup {[present |-> TRUE, value |-> <<n, Suffix, ":", p>>] :
            n \in HostNames, p \in HostPorts}

\* index.js:82: split(":")[0]
RECURSIVE BeforeColon(_)
BeforeColon(s) ==
    IF s = <<>> \/ Head(s) = ":" THEN <<>>
    ELSE <<Head(s)>> \o BeforeColon(Tail(s))

\* index.js:87: replace(".localhost", "") removes the first occurrence
RECURSIVE DropSuffix(_)
DropSuffix(s) ==
    IF s = <<>> THEN <<>>
    ELSE IF Head(s) = Suffix THEN Tail(s)
    ELSE <<Head(s)>> \o DropSuffix(Tail(s))

\* A name taken from the whole header, port included.
ContainerName_KeepPort(h) == DropSuffix(h.value)

\* index.js:82-87: the name a request is looked up under
ContainerName(h) == DropSuffix(BeforeColon(h.value))

\* index.js:88: a name of one token is the key of that token; workload names
\* are single tokens, so a longer or empty name is no key of the table.
Lookup(map, name) == Len(name) = 1 /\ Has(map, name[1])

\* The keys as they are, without the suffix.
AvailableRoutes_Keys(map) == {<<n>> : n \in DOMAIN map}

\* index.js:94: Array.from(containerMap.keys()).map(name => `${name}.localhost`)
AvailableRoutes(map) == {<<n, Suffix>> : n \in DOMAIN map}

\* index.js:98
Target(ep) == <<"http://", ep.ip, ":", ep.port>>

\* index.js:81-123: one request reaches the proxy; the answer, or the
\* upstream it is handed to, is recorded in resp.
Dispatch(h) ==
    /\ proc = "running"
    /\ LET host == BeforeColon(h.value)
           name == ContainerName(h)
           seen == [req |-> "proxy", host |-> h, table |-> containerMap]
       IN resp' =
            IF ~h.present \/ host = <<>>
            THEN seen @@ [status |-> "400", routes |-> {}, target |-> <<>>,
                          phase |-> "none", sent |-> <<"400">>]
            ELSE IF ~Lookup(containerMap, name)
            THEN seen @@ [status |-> "502",
                          routes |-> AvailableRoutes(containerMap),
                          target |-> <<>>,
                          phase |-> "none", sent |-> <<"502">>]
            ELSE seen @@ [status |-> "forwarded", routes |-> {},
                          target |-> Target(containerMap[name[1]]),
                          phase |-> "proxying", sent |-> <<>>]
    /\ UNCHANGED <<proc, containerMap, passes, connecting, streams, timers,
                   pending, workload, changes, callFailed, report,
                   settled, cleanRuns>>

\* The upstream's response begins: the proxy writes its status and headers
\* to the caller (index.js:122).
UpstreamResponds ==
    /\ proc = "running"
    /\ resp.phase = "proxying"
    /\ resp' = [resp EXCEPT !.phase = "streaming",
                            !.sent = Append(@, "upstream")]
    /\ UNCHANGED <<proc, containerMap, passes, connecting, streams, timers,
                   pending, workload, changes, callFailed, report,
                   settled, cleanRuns>>

\* The upstream's response ends.
UpstreamEnds ==
    /\ proc = "running"
    /\ resp.phase = "streaming"
    /\ resp' = [resp EXCEPT !.phase = "ended"]
    /\ UNCHANGED <<proc, containerMap, passes, connecting, streams, timers,
                   pending, workload, changes, callFailed, report,
                   settled, cleanRuns>>

\* res.headersSent
HeadersSent(sent) == sent # <<>>

\* An error handler that answers whatever has been sent.
OnError_NoGuard(sent) == Append(sent, "502")

\* index.js:107-116: onError answers 502 unless the headers have been sent
OnError(sent) == IF ~HeadersSent(sent) THEN Append(sent, "502") ELSE sent

\* The upstream connection fails or times out (index.js:105-106), before or
\* after the upstream's response has begun: onError runs.
ProxyError ==
    /\ proc = "running"
    /\ resp.phase \in {"proxying", "streaming"}
    /\ resp' = [resp EXCEPT !.phase = "failed", !.sent = OnError(@)]
    /\ UNCHANGED <<proc, containerMap, passes, connecting, streams, timers,
                   pending, workload, changes, callFailed, report,
                   settled, cleanRuns>>

\* index.js:126-129: res.status(500).json(...).  Express refuses to set a
\* header once the headers have been sent: json() throws and nothing is
\* written.
ErrorHandler(sent) == IF ~HeadersSent(sent) THEN Append(sent, "500") ELSE sent

\* The proxy middleware throws or passes an error to next (index.js:122):
\* Express calls errorHandler (index.js:132).
ProxyThrows ==
    /\ proc = "running"
    /\ resp.phase \in {"proxying", "streaming"}
    /\ resp' = [resp EXCEPT !.phase = "failed", !.sent = ErrorHandler(@)]
    /\ UNCHANGED <<proc, containerMap, passes, connecting, streams, timers,
                   pending, workload, changes, callFailed, report,
                   settled, cleanRuns>>

\* index.js:64-70: GET /health
Health ==
    /\ proc = "running"
    /\ resp' = [req |-> "health", host |-> NoResponse.host,
                table |-> containerMap, status |-> "200",
                routes |-> {containerMap[n] : n \in DOMAIN containerMap},
                target |-> <<>>, phase |-> "none", sent |-> <<"200">>]
    /\ UNCHANGED <<proc, containerMap, passes, connecting, streams, timers,
                   pending, workload, changes, callFailed, report,
                   settled, cleanRuns>>

\* index.js:72-79: GET /routes
Routes ==
    /\ proc = "running"
    /\ resp' = [req |-> "routes", host |-> NoResponse.host,
                table |-> containerMap, status |-> "200",
                routes |-> {[hostname |-> <<n, Suffix>>,
                             target |-> Target(containerMap[n])] :
                            n \in DOMAIN containerMap},
                target |-> <<>>, phase |-> "none", sent |-> <<"200">>]
    /\ UNCHANGED <<proc, containerMap, passes, connecting, streams, timers,
                   pending, workload, changes, callFailed, report,
                   settled, cleanRuns>>

-----------------------------------------------------------------------------

Next ==
    \/ \E n \in Names : \E p \in ProfilesOf(n) : StartWorkload(n, p)
    \/ \E n \in Names, k \in {"stop", "die"} : StopWorkload(n, k)
    \/ PingOk
    \/ PingFail
    \/ Shutdown
    \/ \E i \in DOMAIN passes : ListOk(i)
    \/ \E i \in DOMAIN passes : ListFail(i)
    \/ \E i \in DOMAIN passes, c \in Names, throws \in BOOLEAN : Inspect(i, c, throws)
    \/ GetEventsError
    \/ GetEventsOk
    \/ StreamError
    \/ StreamEnd
    \/ TimerFire
    \/ OnData

\* The process and its runtime, with no HTTP request arriving, a feed that
\* carries container start, stop and die events only, one to a chunk, and
\* streams that close when they report an error.
Spec == Init /\ [][Next]_vars

\* Node.js runs a timer that is due.
FairSpec == Spec /\ WF_vars(TimerFire)

\* The same process serving HTTP requests, with a feed whose chunks may fail
\* to parse, while the runtime changes at most once more.
NextProxy ==
    \/ Next
    \/ \E h \in Hosts : Dispatch(h)
    \/ UpstreamResponds
    \/ UpstreamEnds
    \/ ProxyError
    \/ ProxyThrows
    \/ Health
    \/ Routes
    \/ \E k \in 1..MaxChanges : OnDataMalformed(k)

ProxySpec == InitWith(MaxChanges - 1) /\ [][NextProxy]_vars

\* The process with a feed that also carries events of other kinds and
\* chunks that do not parse; the runtime changes at most twice more.
NextFeed ==
    \/ Next
    \/ \E e \in OtherEvents : EmitOther(e)
    \/ OnDataOther
    \/ \E k \in 1..MaxChanges : OnDataMalformed(k)

FeedSpec == InitWith(MaxChanges - 2) /\ [][NextFeed]_vars

\* The process with a feed whose streams may report an error without
\* closing, while the runtime changes at most once more.
NextReconnect ==
    \/ Next
    \/ StreamErrorOpen

ReconnectSpec == InitWith(MaxChanges - 1) /\ [][NextReconnect]_vars

\* Endpoint resolution on its own: a pass of the running program holds the
\* metadata of the one workload it listed, drawn from Metadata, and resolves
\* it.
ResolveInit ==
    /\ proc = "running"
    /\ containerMap = EmptyMap
    /\ passes \in {<<Inspected("a", m)>> : m \in Metadata}
    /\ connecting = 0
    /\ streams = 1
    /\ timers = 0
    /\ pending = <<>>
    /\ workload = [n \in Names |-> "stopped"]
    /\ changes = 0
    /\ callFailed = FALSE
    /\ report = NoReport
    /\ resp = NoResponse
    /\ settled = {}
    /\ cleanRuns = 0

NextResolve == \E i \in DOMAIN passes : Resolve(i)

ResolveSpec == ResolveInit /\ [][NextResolve]_vars

-----------------------------------------------------------------------------
(* Properties *)

\* A running workload that inspect() resolves to an address.
Resolvable(n) == SelectIp(Profile(workload[n])) # ""

\* The mapping of the running resolvable workloads to their endpoints.
Truth ==
    [n \in {x \in Running : Resolvable(x)} |-> Endpoint(n, Profile(workload[n]))]

\* C1: the table a lookup or snapshot reads is always one complete version:
\* the initial empty table or the whole map built by the last pass that
\* installed one, with every workload of its listing either routed or
\* skipped; this holds while other passes are suspended in their loops.
AtomicVisibility ==
    /\ containerMap = report.table
    /\ report.kind = "none" => containerMap = EmptyMap
    /\ report.kind = "installed" =>
         DOMAIN containerMap \cup report.failed = report.listed

\* C1 witness: a pass is suspended with a partly built map that differs from
\* the non-empty table installed by another pass.
AtomicVisibilityWitness ==
    /\ containerMap # EmptyMap
    /\ \E i \in DOMAIN passes :
         /\ passes[i].pc = "loop"
         /\ passes[i].new # EmptyMap
         /\ passes[i].new # containerMap
         /\ passes[i].todo # {}

\* C2: a pass whose listing fails leaves the table as it was: every name
\* looks up the same before and after.
ListingFailureSafety ==
    [][\A i \in DOMAIN passes :
         ListFail(i) =>
           \A n \in Names :
             /\ Has(containerMap', n) = Has(containerMap, n)
             /\ Has(containerMap, n) => containerMap'[n] = containerMap[n]]_vars

\* C2 witness: the last pass was aborted and the table still has routes.
ListingFailureWitness ==
    /\ report.kind = "aborted"
    /\ containerMap # EmptyMap

\* C3: the table a pass installs holds exactly the listed workloads that did
\* not fail, each under its own name.
PartialFailureIsolation ==
    report.kind = "installed" =>
      /\ DOMAIN containerMap = report.listed \ report.failed
      /\ \A n \in DOMAIN containerMap : containerMap[n].name = n

\* C3 witness: a pass skipped one workload and installed another.
PartialFailureWitness ==
    /\ report.kind = "installed"
    /\ report.failed # {}
    /\ containerMap # EmptyMap

\* C4 as claimed: at most one pass is in flight.
MutualExclusion == Len(passes) <= 1

\* C5 as claimed: events arriving during a pass add at most one pass, so no
\* more than two are running or pending.
Coalescing == Len(passes) <= 2

\* The runtime has stopped changing, no call has failed, every event has
\* been delivered, every pass has returned and the feed is live.
Quiescent ==
    /\ proc = "running"
    /\ changes = MaxChanges
    /\ ~callFailed
    /\ passes = <<>>
    /\ pending = <<>>
    /\ streams = 1

\* C6 as claimed: once the runtime is stable and nothing is left to run, the
\* table is the mapping of the running resolvable workloads.
EventuallyConsistent == Quiescent => containerMap = Truth

\* C7 as claimed: a name whose start event arrived with no route is not found
\* while the pass that event triggered is in flight, and is found with its
\* endpoint once that pass has installed it, while the workload keeps running
\* and no call fails.
StartEventScenario ==
    ~callFailed =>
      /\ \A i \in DOMAIN passes :
           passes[i].startOf # "" => ~Has(containerMap, passes[i].startOf)
      /\ \A n \in settled :
           /\ Has(containerMap, n)
           /\ containerMap[n] = Endpoint(n, Profile(workload[n]))

\* Pass i installs its table in this step, and the runtime has not changed
\* since the pass was called.
InstallsClean(i) ==
    /\ ~passes[i].dirty
    /\ ListOk(i) \/ \E c \in Names : Inspect(i, c, FALSE)
    /\ Len(passes') < Len(passes)

\* C8: a pass that ran with the runtime unchanged, after a pass that ran and
\* installed its table under the same runtime state, installs an equal table.
IdempotentReconciliation ==
    [][\A i \in DOMAIN passes :
         (cleanRuns >= 1 /\ InstallsClean(i)) => containerMap' = containerMap]_vars

\* C8 witness: two passes in a row have installed a non-empty table with the
\* runtime unchanged.
IdempotentWitness ==
    /\ cleanRuns = 2
    /\ containerMap # EmptyMap

\* C9: once the listener is set up there is always a subscription, a
\* subscription request or a reconnect timer, and a reconnect timer leads to
\* a new subscription request (unless the process is shut down first).
IndefiniteReconnection ==
    /\ [](proc = "running" => connecting + streams + timers >= 1)
    /\ (timers > 0) ~> (connecting > 0 \/ ~Alive)

\* C9 witness: the feed is lost and a reconnect is scheduled.
ReconnectWitness ==
    /\ proc = "running"
    /\ timers = 1
    /\ streams = 0
    /\ connecting = 0

\* C10: a request whose name is no key of the table is answered 502 with the
\* names of that table, each with the suffix, and is handed to no upstream.
UnknownNameDispatch ==
    (/\ resp.req = "proxy"
     /\ resp.host.present
     /\ BeforeColon(resp.host.value) # <<>>
     /\ ~Lookup(resp.table, ContainerName(resp.host)))
    => /\ resp.status = "502"
       /\ resp.routes = {<<n, ".localhost">> : n \in DOMAIN resp.table}
       /\ resp.target = <<>>

\* C10 witness: an unknown name was answered with a non-empty list of routes.
UnknownNameWitness ==
    /\ resp.req = "proxy"
    /\ resp.status = "502"
    /\ resp.routes # {}
    /\ ~Lookup(resp.table, ContainerName(resp.host))

\* C11: a request for n.localhost:p and a request for n.localhost are looked
\* up under the same name n: against the same table both are handed to the
\* endpoint of n when n is a key, and both are answered 502 when it is not.
NameNormalization ==
    \A n \in HostNames, p \in HostPorts :
      (/\ resp.req = "proxy"
       /\ resp.host.present
       /\ resp.host.value \in {<<n, Suffix>>, <<n, Suffix, ":", p>>})
      => /\ ContainerName(resp.host) = <<n>>
         /\ IF n \in DOMAIN resp.table
            THEN /\ resp.status = "forwarded"
                 /\ resp.target = Target(resp.table[n])
            ELSE /\ resp.status = "502"
                 /\ resp.target = <<>>

\* C11 witness: a request that names a port was handed to the endpoint of
\* its name.
NameNormalizationWitness ==
    /\ resp.req = "proxy"
    /\ resp.host.present
    /\ Len(resp.host.value) = 4
    /\ resp.status = "forwarded"
    /\ resp.target = Target(resp.table[resp.host.value[1]])

\* A step in which a call to the runtime fails after start-up, the feed fails
\* or ends, a reconnect fails, a chunk of the feed does not parse, or a
\* forwarded request fails.
FailureStep ==
    \/ \E i \in DOMAIN passes : ListFail(i)
    \/ \E i \in DOMAIN passes, c \in Names : Inspect(i, c, TRUE)
    \/ GetEventsError
    \/ StreamError
    \/ StreamEnd
    \/ \E k \in 1..MaxChanges : OnDataMalformed(k)
    \/ ProxyError
    \/ ProxyThrows

Installs(i) ==
    /\ ListOk(i) \/ \E c \in Names, throws \in BOOLEAN : Inspect(i, c, throws)
    /\ Len(passes') < Len(passes)

\* C13 as claimed, in the form that costs a route: while no call fails, a
\* pass that installs after a pass with a later listing has installed does
\* not replace a table that matches the runtime by one that does not (the
\* claim lets no such pass install at all).
FreshnessMonotonic ==
    [][\A i \in DOMAIN passes :
         (/\ ~callFailed'
          /\ passes[i].stale
          /\ Installs(i)
          /\ containerMap = Truth)
         => containerMap' = Truth]_vars

\* C14 as claimed: the live subscriptions and the scheduled reconnects are
\* never more than one.
SingleSubscription == streams + timers <= 1

\* C15: a pass whose listing fails replaces nothing; a pass whose listing
\* succeeds replaces nothing while a listed workload is still to be
\* processed, and returns with one replacement by the map it built, which
\* holds the listed workloads that did not fail (none, when all failed).
OneReplacePerPass ==
    [][\A i \in DOMAIN passes :
         /\ (passes[i].pc = "list" /\ changes' # changes /\ ListFail(i)) =>
              /\ containerMap' = containerMap
              /\ report'.kind = "aborted"
         /\ \A c \in Names, throws \in BOOLEAN :
              (/\ passes[i].pc = "loop"
               /\ Len(passes') = Len(passes)
               /\ passes'[i].todo = passes[i].todo \ {c}
               /\ c \in passes[i].todo
               /\ Inspect(i, c, throws)) =>
                /\ containerMap' = containerMap
                /\ report' = report
                /\ passes'[i].listed = passes[i].listed
                /\ passes'[i].todo # {}
         /\ (Len(passes') < Len(passes) /\ Installs(i)) =>
              /\ report'.kind = "installed"
              /\ report'.listed = passes[i].listed
              /\ containerMap' = report'.table
              /\ DOMAIN containerMap' = report'.listed \ report'.failed]_vars

\* C15 witness: a pass all of whose listed workloads failed has replaced the
\* table by the empty one.
OneReplaceWitness ==
    /\ report.kind = "installed"
    /\ report.listed = Names
    /\ report.failed = report.listed
    /\ containerMap = EmptyMap

\* C16: until the first pass has returned there is no subscription, no
\* subscription request, no reconnect timer, no event delivered and no
\* request answered, and only that one pass is in flight; once the process
\* serves, the first pass has installed its table or aborted.
InitialReconciliationFirst ==
    /\ proc \in {"ping", "init"} =>
         /\ connecting + streams + timers = 0
         /\ pending = <<>>
         /\ resp = NoResponse
         /\ \A i \in DOMAIN passes : i = 1 /\ passes[i].from = "init"
    /\ proc = "init" => Len(passes) = 1 /\ report = NoReport
    /\ proc = "running" =>
         /\ report.kind \in {"installed", "aborted"}
         /\ \A i \in DOMAIN passes : passes[i].from = "event"

\* C16 witness: the first pass is suspended in its loop with a route built,
\* the runtime has changed under it, and nothing else has started.
InitialReconciliationWitness ==
    /\ proc = "init"
    /\ Len(passes) = 1
    /\ passes[1].pc = "loop"
    /\ passes[1].new # EmptyMap
    /\ passes[1].dirty
    /\ connecting + streams + timers = 0

\* The data handler runs in this step on a chunk that parses.
Delivery ==
    /\ Len(pending') = Len(pending) - 1
    /\ OnData \/ OnDataOther

MalformedSkipped ==
    [][\A k \in 1..MaxChanges :
         (report'.skipped = "yes" /\ OnDataMalformed(k)) =>
           /\ passes' = passes
           /\ containerMap' = containerMap
           /\ <<connecting, streams, timers>>' = <<connecting, streams, timers>>
           /\ proc' = proc
           /\ pending' = SubSeq(pending, k + 1, Len(pending))]_vars

\* C18 witness: after a chunk failed to parse, an event delivered by the
\* same subscription has started a pass, and no reconnect was scheduled.
MalformedWitness ==
    /\ report.skipped = "resumed"
    /\ streams = 1
    /\ connecting + timers = 0
    /\ callFailed = FALSE
    /\ passes # <<>>

\* C19: a request is answered at most once: 400 and 502 by the dispatch, and
\* for a forwarded request the upstream's response, or one 502 or 500 if it
\* fails before that response has begun; a failure after the response has
\* begun writes nothing more.
SingleResponse ==
    /\ Len(resp.sent) <= 1
    /\ resp.status \in {"400", "502"} => resp.sent = <<resp.status>>
    /\ resp.phase \in {"streaming", "ended"} => resp.sent = <<"upstream">>
    /\ resp.phase = "proxying" => resp.sent = <<>>
    /\ resp.phase = "failed" => resp.sent \in {<<"upstream">>, <<"502">>, <<"500">>}

\* C19 witness: the upstream failed after its response had begun, and the
\* caller has been sent that response only.
SingleResponseWitness ==
    /\ resp.status = "forwarded"
    /\ resp.phase = "failed"
    /\ resp.sent = <<"upstream">>

\* The reference policy of C20.  Address: the primary address when it is not
\* empty, otherwise the address of the first network, in reported order,
\* that has one, otherwise none.
RefAddress(m) ==
    LET having == {k \in DOMAIN m.Networks : m.Networks[k] # ""}
    IN IF m.IPAddress # "" THEN m.IPAddress
       ELSE IF having = {} THEN ""
       ELSE m.Networks[CHOOSE k \in having : \A j \in having : k <= j]

\* Port: the number of the first exposed port, or "80" when there is none.
RefPort(m) ==
    IF Len(m.ExposedPorts) = 0 THEN "80" ELSE m.ExposedPorts[1][1]

\* The table of a pass that listed workload c alone.
RefTable(c, m) ==
    IF RefAddress(m) = "" THEN EmptyMap
    ELSE c :> [name |-> c, ip |-> RefAddress(m), port |-> RefPort(m)]

\* C20: for every metadata of the bounded set, the pass that resolves it
\* installs the table of the reference policy: the workload is routed to
\* the primary address, else to the first non-empty network address, with
\* the number of the first exposed port or "80"; with no address it is
\* omitted and logged as failed.
EndpointResolution ==
    [][\A m \in Metadata :
         (/\ passes # <<>>
          /\ "info" \in DOMAIN passes[1]
          /\ passes[1].info = m
          /\ passes' = <<>>)
         => /\ containerMap' = RefTable("a", m)
            /\ report'.table = RefTable("a", m)
            /\ report'.failed = {"a"} \ DOMAIN RefTable("a", m)]_vars

\* C20 witness: the workload has been routed to the address of a network,
\* which no primary address equals, and to the number of its first exposed
\* port, a udp one.
EndpointResolutionWitness ==
    /\ passes = <<>>
    /\ report.kind = "installed"
    /\ report.listed = {"a"}
    /\ Has(containerMap, "a")
    /\ containerMap["a"] = [name |-> "a", ip |-> "10.0.0.5", port |-> "53"]

====
